---- MODULE Spec2Model ----
(***************************************************************************)
(* A model of atom/service.py: the AtomService client (URL resolution,     *)
(* header handling, the four verbs) and the helpers DictionaryToParamList  *)
(* and BuildUri.                                                           *)
(*                                                                         *)
(* Python strings are sequences of one-character strings, so that the      *)
(* regular expression, the escaping and the joins are computed character   *)
(* by character.  Python dictionaries live in a heap of objects addressed  *)
(* by reference, so that two names for one dictionary are visible.         *)
(***************************************************************************)
EXTENDS Integers, Sequences, FiniteSets, TLC

\* heap:    the dictionary objects, by reference (1..Len(heap))
\* clients: the AtomService instances: server, port, ssl and the reference
\*          of additional_headers
\* hist:    per client, what has happened to it (history, not program
\*          state): whether the dictionary given to its constructor held
\*          Authorization, whether UseBasicAuth has been called on it,
\*          whether port or ssl has been assigned
\* last:    the call in progress and its result
VARIABLES heap, clients, hist, last

vars == <<heap, clients, hist, last>>

(***************************************************************************)
(* Bounds of the model.                                                    *)
(***************************************************************************)
NumClients == 2
MaxParams == 2

(***************************************************************************)
(* Characters and strings.                                                 *)
(***************************************************************************)
Lower == <<"a","b","c","d","e","f","g","h","i","j","k","l","m",
           "n","o","p","q","r","s","t","u","v","w","x","y","z">>
Upper == <<"A","B","C","D","E","F","G","H","I","J","K","L","M",
           "N","O","P","Q","R","S","T","U","V","W","X","Y","Z">>
Digits == <<"0","1","2","3","4","5","6","7","8","9">>

Range(f) == {f[i] : i \in DOMAIN f}

IndexOf(seq, c) == CHOOSE i \in DOMAIN seq : seq[i] = c

IsDigit(c) == c \in Range(Digits)
IsAlnum(c) == c \in Range(Lower) \cup Range(Upper) \cup Range(Digits)

\* Python's None, a value distinct from every character string.
None == <<"None">>

Drop(s, n) == SubSeq(s, n + 1, Len(s))
Take(s, n) == SubSeq(s, 1, n)

StartsWith(s, p) == Len(s) >= Len(p) /\ Take(s, Len(p)) = p

\* str.find(c) != -1
Contains(s, c) == \E i \in DOMAIN s : s[i] = c

\* s has t as a contiguous substring.
HasSubstring(s, t) ==
    \E i \in 0..(Len(s) - Len(t)) : SubSeq(s, i + 1, i + Len(t)) = t

RECURSIVE Count(_, _)
Count(s, c) ==
    IF s = <<>> THEN 0
    ELSE (IF Head(s) = c THEN 1 ELSE 0) + Count(Tail(s), c)

\* The ASCII code of the characters the model uses.
Ord(c) ==
    IF c \in Range(Lower) THEN 96 + IndexOf(Lower, c)
    ELSE IF c \in Range(Upper) THEN 64 + IndexOf(Upper, c)
    ELSE IF c \in Range(Digits) THEN 47 + IndexOf(Digits, c)
    ELSE CASE c = "\n" -> 10
           [] c = " "  -> 32
           [] c = "%"  -> 37
           [] c = "&"  -> 38
           [] c = "+"  -> 43
           [] c = "-"  -> 45
           [] c = "."  -> 46
           [] c = "/"  -> 47
           [] c = ":"  -> 58
           [] c = "<"  -> 60
           [] c = "="  -> 61
           [] c = ">"  -> 62
           [] c = "?"  -> 63
           [] c = "_"  -> 95

\* int(digits), for a non-empty string of decimal digits.
RECURSIVE StrToInt(_)
StrToInt(s) ==
    IF s = <<>> THEN 0
    ELSE 10 * StrToInt(Take(s, Len(s) - 1)) + (IndexOf(Digits, s[Len(s)]) - 1)

\* str(n), for a natural number.
RECURSIVE IntToStr(_)
IntToStr(n) ==
    IF n < 10 THEN <<Digits[n + 1]>>
    ELSE IntToStr(n \div 10) \o <<Digits[(n % 10) + 1]>>

\* sep.join(parts)
RECURSIVE Join(_, _)
Join(sep, parts) ==
    IF parts = <<>> THEN <<>>
    ELSE IF Len(parts) = 1 THEN parts[1]
    ELSE parts[1] \o sep \o Join(sep, Tail(parts))

(***************************************************************************)
(* URL_REGEX and re.match.  The pattern is 'http', an optional 's' (group  *)
(* 1), '://', any number of word characters, dots and dashes (group 2), an *)
(* optional ':' with one or more digits (groups 3 and 4), and an optional  *)
(* '/' with the rest of the line (group 5).                                *)
(***************************************************************************)
IsHostChar(c) == IsAlnum(c) \/ c \in {"_", ".", "-"}

\* The longest prefix of s made of host characters: group 2, greedy.
RECURSIVE HostPrefix(_)
HostPrefix(s) ==
    IF s # <<>> /\ IsHostChar(Head(s)) THEN <<Head(s)>> \o HostPrefix(Tail(s))
    ELSE <<>>

\* The longest prefix of s made of digits: group 4, greedy.
RECURSIVE DigitPrefix(_)
DigitPrefix(s) ==
    IF s # <<>> /\ IsDigit(Head(s)) THEN <<Head(s)>> \o DigitPrefix(Tail(s))
    ELSE <<>>

\* The longest prefix of s without a line break: the dot-star of group 5.
RECURSIVE LinePrefix(_)
LinePrefix(s) ==
    IF s # <<>> /\ Head(s) # "\n" THEN <<Head(s)>> \o LinePrefix(Tail(s))
    ELSE <<>>

NoMatch == [matched |-> FALSE, g1 |-> None, g2 |-> None, g3 |-> None,
            g4 |-> None, g5 |-> None]

\* The optional path, group 5: rest is what follows the port.
PathGroup(rest) ==
    IF rest # <<>> /\ Head(rest) = "/" THEN <<"/">> \o LinePrefix(Tail(rest))
    ELSE None

\* The optional port, groups 3 and 4: digits are the digits that follow a
\* ':' right after the host, and rest is what follows the host.
MatchPort(g1, host, digits, rest) ==
    IF digits # <<>>
    THEN [matched |-> TRUE, g1 |-> g1, g2 |-> host,
          g3 |-> <<":">> \o digits, g4 |-> digits,
          g5 |-> PathGroup(Drop(rest, 1 + Len(digits)))]
    ELSE [matched |-> TRUE, g1 |-> g1, g2 |-> host, g3 |-> None, g4 |-> None,
          g5 |-> PathGroup(rest)]

\* rest is what follows the host.
MatchHost(g1, host, rest) ==
    MatchPort(g1, host,
              IF rest # <<>> /\ Head(rest) = ":" THEN DigitPrefix(Tail(rest))
              ELSE <<>>,
              rest)

\* The groups once the scheme and '://' have matched; rest follows the '://'.
MatchAuthority(g1, rest, host) == MatchHost(g1, host, Drop(rest, Len(host)))

\* URL_REGEX.match(url): the match is anchored at the start of url only.
URL_REGEX(url) ==
    IF StartsWith(url, <<"h","t","t","p","s",":","/","/">>)
    THEN MatchAuthority(<<"s">>, Drop(url, 8), HostPrefix(Drop(url, 8)))
    ELSE IF StartsWith(url, <<"h","t","t","p",":","/","/">>)
    THEN MatchAuthority(None, Drop(url, 7), HostPrefix(Drop(url, 7)))
    ELSE NoMatch

(***************************************************************************)
(* urllib.quote_plus, DictionaryToParamList and BuildUri.                  *)
(***************************************************************************)
HexDigits == <<"0","1","2","3","4","5","6","7","8","9","A","B","C","D","E","F">>

\* One character under urllib.quote_plus: letters, digits and '_.-' are
\* kept, a space becomes '+', anything else becomes '%XX'.
QuoteChar(c) ==
    IF IsAlnum(c) \/ c \in {"_", ".", "-"} THEN <<c>>
    ELSE IF c = " " THEN <<"+">>
    ELSE <<"%", HexDigits[(Ord(c) \div 16) + 1], HexDigits[(Ord(c) % 16) + 1]>>

RECURSIVE quote_plus(_)
quote_plus(s) ==
    IF s = <<>> THEN <<>> ELSE QuoteChar(Head(s)) \o quote_plus(Tail(s))

\* transform_op = [str, urllib.quote_plus][bool(escape_params)]
transform_op(escape_params, s) == IF escape_params THEN quote_plus(s) ELSE s

\* None where a dictionary of parameters is expected.  A dictionary of
\* parameters is given by its items in iteration order, a sequence of
\* <<param, value>> pairs with distinct params, which NoParams is not.
NoParams == <<None>>

\* (url_parameters or {}).items(), transformed and joined by '='
DictionaryToParamList(url_parameters, escape_params) ==
    LET items == IF url_parameters = NoParams THEN <<>> ELSE url_parameters
    IN  [i \in DOMAIN items |->
            transform_op(escape_params, items[i][1]) \o <<"=">>
                \o transform_op(escape_params, items[i][2])]

\* A faulty variant of BuildUri: the parameters always follow a '?'.
BuildUriQuestionMark(uri, url_params, escape_params) ==
    LET parameter_list == DictionaryToParamList(url_params, escape_params)
    IN  IF parameter_list # <<>>
        THEN uri \o <<"?">> \o Join(<<"&">>, parameter_list)
        ELSE uri

BuildUri(uri, url_params, escape_params) ==
    LET parameter_list == DictionaryToParamList(url_params, escape_params)
    IN  IF parameter_list # <<>>
        THEN IF Contains(uri, "?")
             THEN Join(<<"&">>, <<uri>> \o parameter_list)
             ELSE uri \o <<"?">> \o Join(<<"&">>, parameter_list)
        ELSE uri

(***************************************************************************)
(* AtomService._ProcessUrl.  self is the client's record.                  *)
(***************************************************************************)
DefaultPort == 80
HttpsPort == 443

\* A faulty variant of ProcessMatch: https forces port 443 after an explicit port
\* has been read.
ProcessMatchForce443(self, url, m) ==
    IF ~m.matched
    THEN [server |-> self.server, port |-> self.port, ssl |-> self.ssl,
          uri |-> url]
    ELSE [server |-> m.g2,
          port   |-> IF m.g1 # None THEN HttpsPort
                     ELSE IF m.g3 = None THEN self.port ELSE StrToInt(m.g4),
          ssl    |-> IF m.g1 # None THEN TRUE ELSE self.ssl,
          uri    |-> IF m.g5 # None THEN m.g5 ELSE <<"/">>]

\* A faulty variant of ProcessMatch: the path falls back to '/' whenever group 5 is
\* missing, also when nothing matched.
ProcessMatchRootPath(self, url, m) ==
    IF ~m.matched
    THEN [server |-> self.server, port |-> self.port, ssl |-> self.ssl,
          uri |-> <<"/">>]
    ELSE [server |-> m.g2,
          port   |-> IF m.g3 = None
                     THEN (IF m.g1 # None THEN HttpsPort ELSE self.port)
                     ELSE StrToInt(m.g4),
          ssl    |-> IF m.g1 # None THEN TRUE ELSE self.ssl,
          uri    |-> IF m.g5 # None THEN m.g5 ELSE <<"/">>]

\* The body of _ProcessUrl once m = URL_REGEX.match(url) is known.
ProcessMatch(self, url, m) ==
    IF ~m.matched
    THEN [server |-> self.server, port |-> self.port, ssl |-> self.ssl,
          uri |-> url]
    ELSE [server |-> m.g2,
          port   |-> IF m.g3 = None
                     THEN (IF m.g1 # None THEN HttpsPort ELSE self.port)
                     ELSE StrToInt(m.g4),
          ssl    |-> IF m.g1 # None THEN TRUE ELSE self.ssl,
          uri    |-> IF m.g5 # None THEN m.g5 ELSE <<"/">>]

ProcessUrl(self, url) == ProcessMatch(self, url, URL_REGEX(url))

(***************************************************************************)
(* base64.encodestring and str.strip, for UseBasicAuth.                    *)
(***************************************************************************)
B64Alphabet == Upper \o Lower \o Digits \o <<"+", "/">>

\* One group of one to three bytes as four characters, padded with '='.
B64Group(bytes) ==
    LET n  == Len(bytes)
        b1 == bytes[1]
        b2 == IF n >= 2 THEN bytes[2] ELSE 0
        b3 == IF n >= 3 THEN bytes[3] ELSE 0
    IN  << B64Alphabet[(b1 \div 4) + 1],
           B64Alphabet[((b1 % 4) * 16 + (b2 \div 16)) + 1],
           IF n >= 2 THEN B64Alphabet[((b2 % 16) * 4 + (b3 \div 64)) + 1] ELSE "=",
           IF n >= 3 THEN B64Alphabet[(b3 % 64) + 1] ELSE "=" >>

RECURSIVE B64(_)
B64(bytes) ==
    IF bytes = <<>> THEN <<>>
    ELSE IF Len(bytes) <= 3 THEN B64Group(bytes)
    ELSE B64Group(Take(bytes, 3)) \o B64(Drop(bytes, 3))

\* base64.encodestring: each 57 bytes of input give one line of output,
\* every line ended by a line break.
RECURSIVE encodestring(_)
encodestring(s) ==
    IF s = <<>> THEN <<>>
    ELSE LET chunk == Take(s, IF Len(s) < 57 THEN Len(s) ELSE 57)
         IN  B64([i \in DOMAIN chunk |-> Ord(chunk[i])]) \o <<"\n">>
                 \o encodestring(Drop(s, Len(chunk)))

IsSpace(c) == c \in {" ", "\n"}

RECURSIVE strip(_)
strip(s) ==
    IF s = <<>> THEN s
    ELSE IF IsSpace(Head(s)) THEN strip(Tail(s))
    ELSE IF IsSpace(s[Len(s)]) THEN strip(Take(s, Len(s) - 1))
    ELSE s

(***************************************************************************)
(* Dictionaries and the heap.  A dictionary is a function from its keys to *)
(* their values; heap[r] is the dictionary object with reference r, and    *)
(* NoDict is the reference that stands for None.                           *)
(***************************************************************************)
NoDict == 0

EmptyDict == [k \in {} |-> None]

\* d[k] = v
SetItem(d, k, v) == [x \in DOMAIN d \cup {k} |-> IF x = k THEN v ELSE d[x]]

HeaderKeys == {"User-Agent", "Authorization", "Content-Length", "Content-Type"}

UserAgentValue == <<"P","y","t","h","o","n"," ","G","o","o","g","l","e"," ","D","a","t","a"," ","C","l","i","e","n","t"," ","L","i","b">>
AtomXml == <<"a","p","p","l","i","c","a","t","i","o","n","/","a","t","o","m","+","x","m","l">>
TextPlain == <<"t","e","x","t","/","p","l","a","i","n">>
BasicPrefix == <<"B","a","s","i","c"," ">>

\* The calls are synchronous: one call is made at a time, and the caller has
\* done with the result of a call (last) before it makes the next.
NoCall == [op |-> "none"]

Idle == last = NoCall

Discard ==
    /\ ~Idle
    /\ last' = NoCall
    /\ UNCHANGED <<heap, clients, hist>>

(***************************************************************************)
(* AtomService.__init__ and UseBasicAuth.                                  *)
(***************************************************************************)
Clients == 1..NumClients

\* A faulty variant of WithUserAgent: a User-Agent the caller gave is kept.
WithUserAgentKept(d) ==
    IF "User-Agent" \in DOMAIN d THEN d
    ELSE [x \in DOMAIN d \cup {"User-Agent"} |->
             IF x = "User-Agent" THEN UserAgentValue ELSE d[x]]

\* self.additional_headers['User-Agent'] = 'Python Google Data Client Lib'
WithUserAgent(d) == SetItem(d, "User-Agent", UserAgentValue)

\* additional_headers is NoDict or the reference of the caller's
\* dictionary; 'additional_headers or {}' keeps the caller's object unless
\* it is None or empty.
Construct(server, additional_headers) ==
    /\ Idle
    /\ Len(clients) < NumClients
    /\ additional_headers = NoDict \/ additional_headers \in DOMAIN heap
    /\ LET fresh == additional_headers = NoDict
                        \/ DOMAIN heap[additional_headers] = {}
           ref   == IF fresh THEN Len(heap) + 1 ELSE additional_headers
           h1    == IF fresh THEN Append(heap, EmptyDict) ELSE heap
       IN  /\ heap' = [h1 EXCEPT ![ref] = WithUserAgent(@)]
           /\ clients' = Append(clients,
                  [server |-> server, port |-> DefaultPort, ssl |-> FALSE,
                   additional_headers |-> ref])
           /\ hist' = Append(hist,
                  [authGiven  |-> ~fresh /\ "Authorization" \in DOMAIN heap[ref],
                   authCalled |-> FALSE,
                   assigned   |-> FALSE])
    /\ last' = [op |-> "Construct", client |-> Len(clients) + 1]

UseBasicAuth(c, username, password) ==
    /\ Idle
    /\ c \in DOMAIN clients
    /\ LET base_64_string == strip(encodestring(username \o <<":">> \o password))
       IN  heap' = [heap EXCEPT ![clients[c].additional_headers] =
                        SetItem(@, "Authorization", BasicPrefix \o base_64_string)]
    /\ hist' = [hist EXCEPT ![c].authCalled = TRUE]
    /\ last' = [op |-> "UseBasicAuth", client |-> c]
    /\ UNCHANGED clients

\* Assignment to the members port and ssl, whose defaults are class
\* attributes.
SetMembers(c, port, ssl) ==
    /\ Idle
    /\ c \in DOMAIN clients
    /\ clients' = [clients EXCEPT ![c].port = port, ![c].ssl = ssl]
    /\ hist' = [hist EXCEPT ![c].assigned = TRUE]
    /\ last' = [op |-> "SetMembers", client |-> c]
    /\ UNCHANGED heap

(***************************************************************************)
(* The connection.  A request is the connection's target, the request line *)
(* and, for every header key, the values of the header lines written with  *)
(* that key, in the order written; body is what send() wrote.              *)
(***************************************************************************)
NoRequest == [ssl |-> FALSE, server |-> None, port |-> 0, method |-> "",
              path |-> None, headers |-> [k \in HeaderKeys |-> <<>>],
              body |-> None]

\* httplib's HTTP(S)Connection(server, port) and putrequest(method, path)
NewConnection(ssl, server, port, http_operation, full_uri) ==
    [ssl |-> ssl, server |-> server, port |-> port, method |-> http_operation,
     path |-> full_uri, headers |-> [k \in HeaderKeys |-> <<>>], body |-> None]

\* for header in d: connection.putheader(header, d[header])
PutHeaders(connection, d) ==
    [connection EXCEPT !.headers =
        [k \in HeaderKeys |-> IF k \in DOMAIN d THEN Append(@[k], d[k]) ELSE @[k]]]

\* The connection of _CreateConnection once r = _ProcessUrl(full_uri) is
\* known: the request line, the client's headers, then the call's.
Connect(r, http_operation, additional_headers, extra_headers) ==
    PutHeaders(
        PutHeaders(NewConnection(r.ssl, r.server, r.port, http_operation, r.uri),
                   additional_headers),
        extra_headers)

\* h is the heap at the time of the call.
CreateConnection(h, self, uri, http_operation, extra_headers, url_params, escape_params) ==
    Connect(ProcessUrl(self, BuildUri(uri, url_params, escape_params)),
            http_operation,
            h[self.additional_headers],
            IF extra_headers # NoDict THEN h[extra_headers] ELSE EmptyDict)

(***************************************************************************)
(* The request body.  data is a string, an ElementTree element (a tag and  *)
(* an optional text) or another object with __str__ (an integer).          *)
(***************************************************************************)
EscapeCdataChar(c) ==
    CASE c = "&" -> <<"&","a","m","p",";">>
      [] c = "<" -> <<"&","l","t",";">>
      [] c = ">" -> <<"&","g","t",";">>
      [] OTHER -> <<c>>

RECURSIVE EscapeCdata(_)
EscapeCdata(s) ==
    IF s = <<>> THEN <<>> ELSE EscapeCdataChar(Head(s)) \o EscapeCdata(Tail(s))

\* ElementTree.tostring of an element without attributes or children
tostring(e) ==
    IF e.text = None THEN <<"<">> \o e.tag \o <<" ", "/", ">">>
    ELSE <<"<">> \o e.tag \o <<">">> \o EscapeCdata(e.text)
             \o <<"<", "/">> \o e.tag \o <<">">>

Serialize(data) ==
    IF data.kind = "element" THEN tostring(data)
    ELSE IF data.kind = "int" THEN IntToStr(data.n)
    ELSE data.text

(***************************************************************************)
(* The verbs.  last records the call and what became of it: the request    *)
(* that went out, or the exception that ended the call.                    *)
(***************************************************************************)
Call(op, c, uri, extra_headers, url_params, escape_params, data_str, content_type, outcome, request) ==
    [op |-> op, client |-> c, uri |-> uri, extra_headers |-> extra_headers,
     url_params |-> url_params, escape_params |-> escape_params,
     data_str |-> data_str, content_type |-> content_type,
     outcome |-> outcome, request |-> request]

Get(c, uri, extra_headers, url_params, escape_params) ==
    /\ Idle
    /\ c \in DOMAIN clients
    /\ extra_headers = NoDict \/ extra_headers \in DOMAIN heap
    /\ LET query_connection ==
               CreateConnection(heap, clients[c], uri, "GET", extra_headers,
                                url_params, escape_params)
       IN  last' = Call("Get", c, uri, extra_headers, url_params, escape_params,
                        None, None, "response", query_connection)
    /\ UNCHANGED <<heap, clients, hist>>

\* extra_headers['Content-Length'] = ... raises TypeError when extra_headers
\* is None; otherwise it writes into the caller's dictionary.  The length is
\* kept as putheader writes it, in decimal.
Post(c, data, uri, extra_headers, url_params, escape_params, content_type) ==
    /\ Idle
    /\ c \in DOMAIN clients
    /\ extra_headers = NoDict \/ extra_headers \in DOMAIN heap
    /\ LET data_str == Serialize(data)
       IN  IF extra_headers = NoDict
           THEN /\ last' = Call("Post", c, uri, extra_headers, url_params,
                                escape_params, data_str, content_type,
                                "TypeError", NoRequest)
                /\ UNCHANGED heap
           ELSE LET h1 == [heap EXCEPT ![extra_headers] =
                              SetItem(SetItem(@, "Content-Length",
                                              IntToStr(Len(data_str))),
                                      "Content-Type", content_type)]
                    insert_connection ==
                        CreateConnection(h1, clients[c], uri, "POST",
                                         extra_headers, url_params, escape_params)
                IN  /\ heap' = h1
                    /\ last' = Call("Post", c, uri, extra_headers, url_params,
                                    escape_params, data_str, content_type,
                                    "response",
                                    [insert_connection EXCEPT !.body = data_str])
    /\ UNCHANGED <<clients, hist>>

Put(c, data, uri, extra_headers, url_params, escape_params, content_type) ==
    /\ Idle
    /\ c \in DOMAIN clients
    /\ extra_headers = NoDict \/ extra_headers \in DOMAIN heap
    /\ LET data_str == Serialize(data)
       IN  IF extra_headers = NoDict
           THEN /\ last' = Call("Put", c, uri, extra_headers, url_params,
                                escape_params, data_str, content_type,
                                "TypeError", NoRequest)
                /\ UNCHANGED heap
           ELSE LET h1 == [heap EXCEPT ![extra_headers] =
                              SetItem(SetItem(@, "Content-Length",
                                              IntToStr(Len(data_str))),
                                      "Content-Type", content_type)]
                    update_connection ==
                        CreateConnection(h1, clients[c], uri, "PUT",
                                         extra_headers, url_params, escape_params)
                IN  /\ heap' = h1
                    /\ last' = Call("Put", c, uri, extra_headers, url_params,
                                    escape_params, data_str, content_type,
                                    "response",
                                    [update_connection EXCEPT !.body = data_str])
    /\ UNCHANGED <<clients, hist>>

Delete(c, uri, extra_headers, url_params, escape_params) ==
    /\ Idle
    /\ c \in DOMAIN clients
    /\ extra_headers = NoDict \/ extra_headers \in DOMAIN heap
    /\ LET delete_connection ==
               CreateConnection(heap, clients[c], uri, "DELETE", extra_headers,
                                url_params, escape_params)
       IN  last' = Call("Delete", c, uri, extra_headers, url_params,
                        escape_params, None, None, "response", delete_connection)
    /\ UNCHANGED <<heap, clients, hist>>

\* A call of _ProcessUrl on its own.
ProcessUrlCall(c, url) ==
    /\ Idle
    /\ c \in DOMAIN clients
    /\ last' = [op |-> "_ProcessUrl", client |-> c, url |-> url,
                result |-> ProcessUrl(clients[c], url)]
    /\ UNCHANGED <<heap, clients, hist>>

\* A call of the module-level helper BuildUri.
BuildUriCall(uri, url_params, escape_params) ==
    /\ Idle
    /\ last' = [op |-> "BuildUri", uri |-> uri, url_params |-> url_params,
                escape_params |-> escape_params,
                result |-> BuildUri(uri, url_params, escape_params)]
    /\ UNCHANGED <<heap, clients, hist>>

(***************************************************************************)
(* The client specification: clients are constructed, given credentials    *)
(* and used, from dictionaries of headers the caller holds.                *)
(***************************************************************************)
ExampleServer == <<"e","x","a","m","p","l","e",".","c","o","m">>

Token == <<"t","o","k">>

CustomAgent == <<"u","a">>

\* The dictionaries the caller has built: an empty one, and one with an
\* Authorization token, a Content-Type and a User-Agent of its own.
CallerHeap ==
    << EmptyDict,
       [k \in {"Authorization", "Content-Type", "User-Agent"} |->
           CASE k = "Authorization" -> Token
             [] k = "Content-Type" -> TextPlain
             [] k = "User-Agent" -> CustomAgent] >>

\* What the caller passes for additional_headers: None, a dictionary of
\* its own, or the additional_headers of a client.
HeaderArgs == {NoDict} \cup DOMAIN heap

\* What the caller passes for extra_headers: None or a dictionary of its
\* own.
DictArgs == {NoDict} \cup DOMAIN CallerHeap

StrData == [kind |-> "str", text |-> <<"a","b">>, tag |-> None, n |-> 0]
ElementData == [kind |-> "element", text |-> None, tag |-> <<"e">>, n |-> 0]
IntData == [kind |-> "int", text |-> None, tag |-> None, n |-> 1234]

OneParam == << <<<<"q">>, <<"a"," ","b">>>> >>

\* <<uri, url_params, escape_params>>
Targets ==
    { <<<<"/","f">>, NoParams, TRUE>>,
      <<<<"/","f","?","x","=","1">>, OneParam, FALSE>>,
      <<<<"h","t","t","p",":","/","/","h">>, OneParam, TRUE>>,
      <<<<"h","t","t","p","s",":","/","/","h",":","8","/","f">>, <<>>, TRUE>> }

\* <<data, content_type>>
Bodies == { <<ElementData, AtomXml>>, <<StrData, TextPlain>> }

Init ==
    /\ heap = CallerHeap
    /\ clients = <<>>
    /\ hist = <<>>
    /\ last = NoCall

Next ==
    \/ Discard
    \/ \E d \in HeaderArgs : Construct(ExampleServer, d)
    \/ \E c \in Clients : UseBasicAuth(c, <<"u">>, <<"p">>)
    \/ \E c \in Clients, t \in Targets, d \in DictArgs :
          \/ Get(c, t[1], d, t[2], t[3])
          \/ Delete(c, t[1], d, t[2], t[3])
    \/ \E c \in Clients, b \in Bodies, t \in Targets, d \in DictArgs :
          \/ Post(c, b[1], t[1], d, t[2], t[3], b[2])
          \/ Put(c, b[1], t[1], d, t[2], t[3], b[2])

Spec == Init /\ [][Next]_vars

(***************************************************************************)
(* The URL specification: one client, constructed with a server and no     *)
(* headers of the caller's, whose members are assigned and which is used   *)
(* on a wide range of targets; the helpers are called on their own.        *)
(***************************************************************************)
Schemes == { <<>>, <<"h","t","t","p",":","/","/">>, <<"h","t","t","p","s",":","/","/">>, <<"h","t","t","p",":","/">>, <<"f","t","p",":","/","/">>, <<"x","h","t","t","p",":","/","/">> }
Hosts == { <<>>, <<"h">>, <<"a",".","b","-","c","_","1">> }
PortParts == { <<>>, <<":">>, <<":", "8">>, <<":","8","0","8","0">> }
Paths == { <<>>, <<"/">>, <<"/","p">>, <<"/","p","?","x","=","1">>, <<"?","x","=","1">>, <<"/","a","\n","b">> }

Urls == { s \o h \o p \o q : s \in Schemes, h \in Hosts, p \in PortParts,
                             q \in Paths }

SnippetsQuery == <<"/","f","e","e","d","s","/","s","n","i","p","p","e","t","s","?","b","q","=","c","a","m","e","r","a">>

VerbUris ==
    { SnippetsQuery, <<"/","p">>, <<"/","p","?","x","=","1">>, <<>>,
      <<"h","t","t","p",":","/","/">> \o <<"h">>, <<"h","t","t","p",":","/","/">> \o <<"h">> \o <<":","8","0","8","0">>, <<"h","t","t","p",":","/","/">> \o <<"h">> \o <<"/","p">>,
      <<"h","t","t","p",":","/","/">> \o <<"h">> \o <<":","8","0","8","0">> \o <<"/","p","?","x","=","1">>, <<"h","t","t","p","s",":","/","/">> \o <<"h">>,
      <<"h","t","t","p","s",":","/","/">> \o <<"a",".","b","-","c","_","1">> \o <<"/","p">>, <<"h","t","t","p","s",":","/","/">> \o <<"h">> \o <<":","8","0","8","0">> \o <<"/","p">>,
      <<"f","t","p",":","/","/">> \o <<"h">> \o <<"/","p">> }

ParamKeys == { <<"q">>, <<"m"," ","r">>, <<"k">> }
ParamValues == { <<"1">>, <<"a"," ","b","?">> }

\* The items of a dictionary of at most MaxParams parameters, in every
\* order a dictionary may yield them.
ParamLists ==
    { ps \in UNION { [1..n -> ParamKeys \X ParamValues] : n \in 0..MaxParams } :
        \A i, j \in DOMAIN ps : i # j => ps[i][1] # ps[j][1] }

VerbParams == {NoParams} \cup { ps \in ParamLists : Len(ps) <= 1 }

BuildUris == { <<>>, <<"/","p">>, <<"/","p","?","x","=","1">>, <<"?">>, <<"h","t","t","p",":","/","/">> \o <<"h">> }

MemberPorts == { DefaultPort, HttpsPort, 8080 }

\* The state after AtomService(server) or AtomService(), the caller holding
\* one empty dictionary.
InitUrl ==
    /\ heap = << EmptyDict, WithUserAgent(EmptyDict) >>
    /\ \E server \in {ExampleServer, None} :
          clients = << [server |-> server, port |-> DefaultPort,
                        ssl |-> FALSE, additional_headers |-> 2] >>
    /\ hist = << [authGiven |-> FALSE, authCalled |-> FALSE,
                  assigned |-> FALSE] >>
    /\ last = NoCall

NextUrl ==
    \/ Discard
    \/ \E port \in MemberPorts, ssl \in BOOLEAN : SetMembers(1, port, ssl)
    \/ \E url \in Urls : ProcessUrlCall(1, url)
    \/ \E uri \in BuildUris, ps \in {NoParams} \cup ParamLists, esc \in BOOLEAN :
          BuildUriCall(uri, ps, esc)
    \/ \E uri \in VerbUris, ps \in VerbParams, esc \in BOOLEAN :
          \/ Get(1, uri, NoDict, ps, esc)
          \/ Delete(1, uri, NoDict, ps, esc)
          \/ Post(1, IntData, uri, 1, ps, esc, AtomXml)
          \/ Put(1, StrData, uri, 1, ps, esc, TextPlain)

SpecUrl == InitUrl /\ [][NextUrl]_vars

(***************************************************************************)
(* The claims.                                                             *)
(***************************************************************************)
IsVerb(op) == op \in {"Get", "Post", "Put", "Delete"}

\* A verb call that went as far as sending its request.
Sent == IsVerb(last.op) /\ last.outcome = "response"

HttpsScheme == <<"h","t","t","p","s",":","/","/">>

\* The dictionary of default headers of client c.
Headers(c) == heap[clients[c].additional_headers]

RECURSIVE CountAll(_, _)
CountAll(parts, c) ==
    IF parts = <<>> THEN 0 ELSE Count(Head(parts), c) + CountAll(Tail(parts), c)

\* C1, as claimed: _ProcessUrl of an absolute https URL yields ssl = true and
\* port 443 whatever port the URL embeds and whatever port the client is
\* configured with; the server is group 2 and the path is group 5.
C1_Https443Always ==
    (last.op = "_ProcessUrl" /\ StartsWith(last.url, HttpsScheme)) =>
        LET m == URL_REGEX(last.url)
        IN  /\ last.result.ssl = TRUE
            /\ last.result.port = HttpsPort
            /\ last.result.server = m.g2
            /\ m.g5 # None => last.result.uri = m.g5

\* C1, amended: _ProcessUrl of an absolute https URL yields ssl = true, the
\* port the URL embeds if it embeds one and 443 otherwise, whatever port the
\* client is configured with; the server is group 2 and the path is group 5,
\* or '/' when the URL has no path.
C1_HttpsPort ==
    (last.op = "_ProcessUrl" /\ StartsWith(last.url, HttpsScheme)) =>
        LET m == URL_REGEX(last.url)
        IN  /\ m.matched
            /\ last.result.ssl = TRUE
            /\ last.result.port = (IF m.g4 # None THEN StrToInt(m.g4) ELSE HttpsPort)
            /\ last.result.server = m.g2
            /\ last.result.uri = (IF m.g5 # None THEN m.g5 ELSE <<"/">>)

\* An https URL with an embedded port, resolved for a client configured
\* with another port: the embedded port is the one used.
C1_Witness ==
    /\ last.op = "_ProcessUrl"
    /\ last.url = <<"h","t","t","p","s",":","/","/","h",":","8","0","8","0","/","p">>
    /\ last.result.port = 8080
    /\ last.result.ssl = TRUE
    /\ clients[last.client].port = DefaultPort

\* C2, as claimed: whatever the client's configuration, _ProcessUrl of an
\* input that matches the pattern yields ssl = true if and only if the 's'
\* of https was present.
C2_SslIffHttps ==
    (last.op = "_ProcessUrl" /\ URL_REGEX(last.url).matched) =>
        (last.result.ssl <=> URL_REGEX(last.url).g1 # None)

\* C3, as claimed: a verb called with extra_headers = None does not fail; a
\* Post or Put so called sends a request with Content-Length and
\* Content-Type.
C3_NoneHeadersAccepted ==
    (IsVerb(last.op) /\ last.extra_headers = NoDict) =>
        /\ last.outcome = "response"
        /\ last.op \in {"Post", "Put"} =>
              /\ last.request.headers["Content-Length"] # <<>>
              /\ last.request.headers["Content-Type"] # <<>>

\* C4, as claimed: for a header key held both by the client's default
\* headers and by the call's extra headers, the request carries the call's
\* value and no other.
C4_PerCallWins ==
    (Sent /\ last.extra_headers # NoDict) =>
        \A k \in DOMAIN Headers(last.client) \cap DOMAIN heap[last.extra_headers] :
            /\ last.request.headers[k] # <<>>
            /\ \A i \in DOMAIN last.request.headers[k] :
                  last.request.headers[k][i] = heap[last.extra_headers][k]

\* C5, as claimed: a Post or Put request carries the body it serialised,
\* Content-Length with the length of that body and no other value, and
\* Content-Type with the content_type argument and no other value.
C5_LengthAndType ==
    (Sent /\ last.op \in {"Post", "Put"}) =>
        /\ last.request.body = last.data_str
        /\ last.request.headers["Content-Length"] # <<>>
        /\ \A i \in DOMAIN last.request.headers["Content-Length"] :
              last.request.headers["Content-Length"][i]
                  = IntToStr(Len(last.request.body))
        /\ last.request.headers["Content-Type"] # <<>>
        /\ \A i \in DOMAIN last.request.headers["Content-Type"] :
              last.request.headers["Content-Type"][i] = last.content_type

\* C6: BuildUri returns uri unchanged when there are no parameters;
\* otherwise it returns uri, then '&' if uri holds a '?' and '?' if it does
\* not, then the encoded 'key=value' strings joined by '&'.  The result
\* starts with uri and holds no '?' beyond those of uri, those of the
\* encoded strings and the one separator.
C6_BuildUri ==
    last.op = "BuildUri" =>
        LET list == DictionaryToParamList(last.url_params, last.escape_params)
            sep  == IF Contains(last.uri, "?") THEN <<"&">> ELSE <<"?">>
        IN  /\ Len(list) = (IF last.url_params = NoParams THEN 0
                            ELSE Len(last.url_params))
            /\ list = <<>> => last.result = last.uri
            /\ list # <<>> =>
                  last.result = last.uri \o sep \o Join(<<"&">>, list)
            /\ StartsWith(last.result, last.uri)
            /\ Count(last.result, "?") =
                  Count(last.uri, "?") + CountAll(list, "?")
                     + (IF list # <<>> /\ ~Contains(last.uri, "?") THEN 1 ELSE 0)

\* Two parameters appended to a uri that already holds a '?'.
C6_Witness ==
    /\ last.op = "BuildUri"
    /\ last.url_params # NoParams
    /\ Len(last.url_params) = 2
    /\ Contains(last.uri, "?")
    /\ Count(last.result, "?") = 1
    /\ Len(last.result) > Len(last.uri)

\* C7: for an input the pattern does not match, _ProcessUrl returns the
\* client's server, port and ssl and the input as the path; a verb called
\* on such an input without parameters sends its request there; so
\* Get('/feeds/snippets?bq=camera') on a client built with server
\* 'example.com', its members left alone, goes to example.com, port 80,
\* plaintext, with that very path.
C7_RelativePath ==
    /\ (last.op = "_ProcessUrl" /\ ~URL_REGEX(last.url).matched) =>
          last.result = [server |-> clients[last.client].server,
                         port   |-> clients[last.client].port,
                         ssl    |-> clients[last.client].ssl,
                         uri    |-> last.url]
    /\ (IsVerb(last.op) /\ ~URL_REGEX(last.uri).matched
            /\ last.url_params \in {NoParams, <<>>}) =>
          /\ last.op \in {"Get", "Delete"} => last.outcome = "response"
          /\ last.outcome = "response" =>
                /\ last.request.server = clients[last.client].server
                /\ last.request.port = clients[last.client].port
                /\ last.request.ssl = clients[last.client].ssl
                /\ last.request.path = last.uri
    /\ (last.op = "Get" /\ last.uri = SnippetsQuery /\ last.url_params = NoParams
            /\ ~hist[last.client].assigned
            /\ clients[last.client].server = ExampleServer) =>
          /\ last.request.method = "GET"
          /\ last.request.server = ExampleServer
          /\ last.request.port = 80
          /\ last.request.ssl = FALSE
          /\ last.request.path = SnippetsQuery

\* The Get of the example, sent.
C7_Witness ==
    /\ last.op = "Get"
    /\ last.uri = SnippetsQuery
    /\ last.url_params = NoParams
    /\ ~hist[last.client].assigned
    /\ last.outcome = "response"
    /\ last.request.path = SnippetsQuery

\* C8, as claimed: every client's default headers hold User-Agent with the
\* fixed string, and hold Authorization only if UseBasicAuth has been
\* called on that client.
C8_AuthOnlyAfterBasicAuth ==
    \A c \in DOMAIN clients :
        /\ "User-Agent" \in DOMAIN Headers(c)
        /\ Headers(c)["User-Agent"] = UserAgentValue
        /\ "Authorization" \in DOMAIN Headers(c) => hist[c].authCalled

\* C8, amended: every client's default headers hold User-Agent with the
\* fixed string, and hold Authorization only if the dictionary given to the
\* constructor held it already, or UseBasicAuth has been called on that
\* client or on a client that holds the same dictionary.
C8_AuthGivenOrSet ==
    \A c \in DOMAIN clients :
        /\ "User-Agent" \in DOMAIN Headers(c)
        /\ Headers(c)["User-Agent"] = UserAgentValue
        /\ "Authorization" \in DOMAIN Headers(c) =>
              \/ hist[c].authGiven
              \/ \E c2 \in DOMAIN clients :
                    /\ hist[c2].authCalled
                    /\ clients[c2].additional_headers
                          = clients[c].additional_headers

\* A client whose Authorization came with the caller's dictionary, whose
\* User-Agent the constructor has overwritten, and which has been used.
C8_Witness ==
    /\ Sent
    /\ hist[last.client].authGiven
    /\ ~hist[last.client].authCalled
    /\ Headers(last.client)["Authorization"] = Token
    /\ Headers(last.client)["User-Agent"] = UserAgentValue

\* C9, as claimed: UseBasicAuth on one client leaves every other client's
\* default headers as they were, and no verb changes any client's server,
\* port, ssl or default headers.
C9_ConfigurationOwned ==
    [][ /\ last'.op = "UseBasicAuth" =>
              \A c \in DOMAIN clients :
                  c # last'.client =>
                      heap'[clients'[c].additional_headers] = Headers(c)
        /\ IsVerb(last'.op) =>
              \A c \in DOMAIN clients :
                  /\ clients'[c] = clients[c]
                  /\ heap'[clients'[c].additional_headers] = Headers(c)
      ]_vars

\* C10, as claimed: a verb called with parameters sends a request whose
\* path holds every encoded 'key=value' string.
C10_ParamsInPath ==
    (Sent /\ last.url_params \notin {NoParams, <<>>}) =>
        \A i \in DOMAIN last.url_params :
            HasSubstring(last.request.path,
                DictionaryToParamList(last.url_params, last.escape_params)[i])

====
